---- MODULE Spec2Model ----
(***************************************************************************)
(* State-machine model of luftdaten/__init__.py: the Luftdaten reader      *)
(* (get_data, validate_sensor) and the LuftdatenPush pusher (push_data).   *)
(*                                                                         *)
(* One behaviour follows ONE constructed object: Init is the state right   *)
(* after Luftdaten.__init__ or LuftdatenPush.__init__, and every step is   *)
(* one complete call of a method of that object (the calls of one object   *)
(* are sequential).  The HTTP session is the environment: what it answers  *)
(* is an input of the call.                                                *)
(*                                                                         *)
(* Representation of Python values                                         *)
(*   scalar   [t, s, n]: t is the Python type; s the characters of a str   *)
(*            (a sequence of one-character strings); n the number of an    *)
(*            int, or of a float counted in tenths (12.3 is n = 123).      *)
(*   dict     a function from its keys; a missing key is a key outside     *)
(*            DOMAIN.  The argument of push_data, whose iteration order    *)
(*            matters, is a sequence of <<key, value>> with distinct keys. *)
(*   self.data / a decoded body   [t, v]: NoneType, or a list of records.  *)
(*   an exception is the string of its class name, "none" for no exception.*)
(***************************************************************************)
EXTENDS Integers, Sequences, FiniteSets, TLC

VARIABLES
    self,      \* the object's fields (self.* of the constructed instance)
    ctor,      \* the arguments the constructor was called with
    call,      \* the last call as its caller saw it: method, argument,
               \* exception that escaped, return value, the exception the
               \* session raised inside it and where (at the request or at
               \* the read of the body), the requests it issued
    lastFetch, \* history: what the most recent get_data call received
    decoded    \* history: the most recent body a get_data call decoded

vars == <<self, ctor, call, lastFetch, decoded>>

----------------------------------------------------------------------------
(* Bounds of the model *)

\* records in one fetch response
MaxRecords == 2
\* keys in one mapping passed to push_data
MaxKeys == 2

----------------------------------------------------------------------------
(* Program constants *)

SENSOR_SDS011 == 1
SENSOR_BME280 == 11
\* async_timeout.timeout(60, ...)
Timeout == 60

_RESOURCE == "https://api.luftdaten.info/v1"
_PUSH_ENDPOINT == "http://api.luftdaten.info/v1/push-sensor-data/"

----------------------------------------------------------------------------
(* Python values *)

None == [t |-> "NoneType", s |-> <<>>, n |-> 0]
PyStr(cs) == [t |-> "str", s |-> cs, n |-> 0]
PyInt(i) == [t |-> "int", s |-> <<>>, n |-> i]
PyFloat(tenths) == [t |-> "float", s |-> <<>>, n |-> tenths]

DataNone == [t |-> "NoneType", v |-> <<>>]
List(recs) == [t |-> "list", v |-> recs]

\* bool(x) of a decoded body: None and [] are falsy
Truthy(d) == d.t = "list" /\ Len(d.v) > 0

EmptyDict == [k \in {} |-> None]
Put(d, k, x) == [j \in (DOMAIN d) \cup {k} |-> IF j = k THEN x ELSE d[j]]
Has(d, k) == k \in DOMAIN d

----------------------------------------------------------------------------
(* Characters: digits, and the code-point order str comparison uses *)

DigitChars == <<"0", "1", "2", "3", "4", "5", "6", "7", "8", "9">>
Digits == {DigitChars[i] : i \in 1..Len(DigitChars)}
DigitValues ==
    [c \in Digits |-> (CHOOSE i \in 1..Len(DigitChars) : DigitChars[i] = c) - 1]
IsDigit(c) == c \in Digits
DigitVal(c) == DigitValues[c]

\* the characters of the model in ASCII order
CharOrder == <<"+", "-", ".", "0", "1", "2", "3", "4", "5", "6", "7", "8",
               "9", ":", "T", "a", "b", "c">>
Ords ==
    [c \in {CharOrder[i] : i \in 1..Len(CharOrder)} |->
        CHOOSE i \in 1..Len(CharOrder) : CharOrder[i] = c]
Ord(c) == Ords[c]

\* a < b for two str: lexicographic by code point, a proper prefix is less
RECURSIVE StrLess(_, _)
StrLess(a, b) ==
    IF Len(b) = 0 THEN FALSE
    ELSE IF Len(a) = 0 THEN TRUE
    ELSE IF Ord(Head(a)) < Ord(Head(b)) THEN TRUE
    ELSE IF Ord(Head(a)) > Ord(Head(b)) THEN FALSE
    ELSE StrLess(Tail(a), Tail(b))

----------------------------------------------------------------------------
(* float(x) and format(n) *)

RECURSIVE DigitsVal(_)
DigitsVal(cs) ==
    IF Len(cs) = 0 THEN 0
    ELSE 10 * DigitsVal(SubSeq(cs, 1, Len(cs) - 1)) + DigitVal(cs[Len(cs)])

AllDigits(cs) == \A i \in 1..Len(cs) : IsDigit(cs[i])

\* float("...") on [sign] digits [. digits], the value counted in tenths
\* (fraction digits after the first are below the model's resolution).
\* Any other text, a second "." included, is a ValueError.
Negative(cs) == Len(cs) > 0 /\ cs[1] = "-"
Unsigned(cs) == IF Len(cs) > 0 /\ cs[1] \in {"+", "-"} THEN Tail(cs) ELSE cs
DotAt(cs) ==
    IF \E i \in 1..Len(cs) : cs[i] = "."
      THEN CHOOSE i \in 1..Len(cs) :
               cs[i] = "." /\ \A j \in 1..(i - 1) : cs[j] # "."
      ELSE Len(cs) + 1
Tenths(whole, frac) ==
    10 * DigitsVal(whole) + (IF Len(frac) = 0 THEN 0 ELSE DigitVal(frac[1]))
ParseParts(neg, whole, frac) ==
    IF AllDigits(whole) /\ AllDigits(frac) /\ Len(whole) + Len(frac) > 0
      THEN [exc |-> "none",
            val |-> PyFloat(IF neg THEN 0 - Tenths(whole, frac)
                            ELSE Tenths(whole, frac))]
      ELSE [exc |-> "ValueError", val |-> None]
ParseSplit(neg, cs, dot) ==
    ParseParts(neg, SubSeq(cs, 1, dot - 1), SubSeq(cs, dot + 1, Len(cs)))
ParseFloat(cs) == ParseSplit(Negative(cs), Unsigned(cs), DotAt(Unsigned(cs)))

\* float(x): [exc, val]
Float(x) ==
    CASE x.t = "float" -> [exc |-> "none", val |-> x]
      [] x.t = "int" -> [exc |-> "none", val |-> PyFloat(10 * x.n)]
      [] x.t = "str" -> ParseFloat(x.s)
      [] OTHER -> [exc |-> "TypeError", val |-> None]

\* '%s' % format(n) for an int n >= 0: its decimal digits
RECURSIVE Format(_)
Format(n) ==
    IF n < 10 THEN <<DigitChars[n + 1]>>
    ELSE Format(n \div 10) \o <<DigitChars[(n % 10) + 1]>>

----------------------------------------------------------------------------
(* class Luftdaten *)

\* Luftdaten.__init__(sensor_id, loop, session)
Luftdaten(sensor_id) ==
    [cls |-> "Luftdaten",
     sensor_id |-> sensor_id,
     data |-> DataNone,
     values |-> EmptyDict,
     meta |-> EmptyDict,
     url |-> <<_RESOURCE, "sensor">>]

\* the GET of get_data: '{}/{}/'.format(self.url, self.sensor_id), under
\* async_timeout.timeout(60)
GetRequest(s) ==
    [method |-> "GET", url |-> <<s.url, s.sensor_id>>, timeout |-> Timeout]

\* faulty variant: aiohttp.ClientError left out of the except clause
GetCaughtTimeoutOnly(e) == e = "TimeoutError"

\* except (asyncio.TimeoutError, aiohttp.ClientError) of get_data
GetCaught(e) == e \in {"TimeoutError", "ClientError"}

\* faulty variant: self.data reset when the call starts
AssignDataOrNone(d, resp) ==
    IF resp.raises = "none" THEN resp.body ELSE DataNone

\* self.data after the first try block: assigned only when the request and
\* response.json() both returned
AssignData(d, resp) == IF resp.raises = "none" THEN resp.body ELSE d

\* faulty variants: the values left as they are; the mapping cleared
NullAllKeep(vals) == vals
NullAllClear(vals) == EmptyDict

\* for measurement in self.values.keys(): self.values[measurement] = None
NullAll(vals) == [k \in DOMAIN vals |-> None]

\* a < b between two sort keys (Python compares str with str, numbers with
\* numbers)
KeyLess(a, b) == IF a.t = "str" THEN StrLess(a.s, b.s) ELSE a.n < b.n

\* the exception sorted(self.data, key=lambda r: r['timestamp']) raises:
\* the key of every record is taken first (KeyError), then keys are
\* compared (TypeError between keys that are not both str or both numbers)
SortExc(recs) ==
    IF \E i \in 1..Len(recs) : ~Has(recs[i], "timestamp") THEN "KeyError"
    ELSE IF /\ Len(recs) >= 2
            /\ ~ \/ \A i \in 1..Len(recs) : recs[i].timestamp.t = "str"
                 \/ \A i \in 1..Len(recs) :
                        recs[i].timestamp.t \in {"int", "float"}
         THEN "TypeError"
    ELSE "none"

\* insert r into a list sorted by descending key, after every record whose
\* key is not less than r's (the sort is stable: equal keys keep their order)
RECURSIVE InsertDesc(_, _)
InsertDesc(r, srt) ==
    IF Len(srt) = 0 THEN <<r>>
    ELSE IF KeyLess(Head(srt).timestamp, r.timestamp) THEN <<r>> \o srt
    ELSE <<Head(srt)>> \o InsertDesc(r, Tail(srt))

RECURSIVE SortPrefix(_, _)
SortPrefix(recs, n) ==
    IF n = 0 THEN <<>> ELSE InsertDesc(recs[n], SortPrefix(recs, n - 1))

\* faulty variant: reverse=True left out (ascending order)
sortedAscending(recs) ==
    [i \in 1..Len(recs) |-> SortPrefix(recs, Len(recs))[Len(recs) + 1 - i]]

\* sorted(self.data, key=lambda timestamp: timestamp['timestamp'],
\*        reverse=True)
sorted(recs) == SortPrefix(recs, Len(recs))

\* faulty variant: every key reset when an entry is registered
RegisterResetting(vals, vt) == [k \in (DOMAIN vals) \cup {vt} |-> None]

\* if entry['value_type'] not in self.values.keys():
\*     self.values[entry['value_type']] = None
Register(vals, vt) == IF Has(vals, vt) THEN vals ELSE Put(vals, vt, None)

\* self.values[measurement] = float(entry['value']), f the result of float
StoreFloat(vals, vt, f) ==
    IF f.exc # "none" THEN [values |-> vals, exc |-> f.exc]
    ELSE [values |-> Put(vals, vt, f.val), exc |-> "none"]

\* one pass of the loop over sensor_data['sensordatavalues']: [values, exc]
StoreEntry(vals, entry) ==
    IF ~Has(entry, "value_type") THEN [values |-> vals, exc |-> "KeyError"]
    ELSE IF ~Has(entry, "value")
      THEN [values |-> Register(vals, entry.value_type), exc |-> "KeyError"]
    ELSE StoreFloat(Register(vals, entry.value_type), entry.value_type,
                    Float(entry.value))

\* for entry in sensor_data['sensordatavalues'], from entry i on; what was
\* stored before an exception stays stored
RECURSIVE StoreEntries(_, _, _)
RECURSIVE StoreRest(_, _, _)
StoreEntries(vals, entries, i) ==
    IF i > Len(entries) THEN [values |-> vals, exc |-> "none"]
    ELSE StoreRest(StoreEntry(vals, entries[i]), entries, i)
StoreRest(st, entries, i) ==
    IF st.exc # "none" THEN st ELSE StoreEntries(st.values, entries, i + 1)

\* self.meta[key] = float(obj[key]); the right-hand side is evaluated
\* before the key is assigned: [meta, exc]
SetFloatValue(meta, key, f) ==
    IF f.exc # "none" THEN [meta |-> meta, exc |-> f.exc]
    ELSE [meta |-> Put(meta, key, f.val), exc |-> "none"]
SetFloat(meta, obj, key) ==
    IF ~Has(obj, key) THEN [meta |-> meta, exc |-> "KeyError"]
    ELSE SetFloatValue(meta, key, Float(obj[key]))

\* the latitude is assigned only when the longitude was
SetLatitude(mt, loc) ==
    IF mt.exc # "none" THEN mt ELSE SetFloat(mt.meta, loc, "latitude")
SetLocation(meta, sensor_data) ==
    IF ~Has(sensor_data, "location") THEN [meta |-> meta, exc |-> "KeyError"]
    ELSE SetLatitude(SetFloat(meta, sensor_data.location, "longitude"),
                     sensor_data.location)

\* self.meta['sensor_id'], ['longitude'], ['latitude'], in that order
SetMeta(meta, sensor_id, sensor_data) ==
    SetLocation(Put(meta, "sensor_id", sensor_id), sensor_data)

\* except (TypeError, IndexError): raise exceptions.LuftdatenError()
ExtractCaught(e) == e \in {"TypeError", "IndexError"}
ExtractExc(e) == IF ExtractCaught(e) THEN "LuftdatenError" ELSE e

\* the second try block of get_data, on a truthy self.data: [self, exc]
Extracted(s, mt) ==
    [self |-> [s EXCEPT !.meta = mt.meta], exc |-> ExtractExc(mt.exc)]
ExtractMeta(s, sensor_data, st) ==
    IF st.exc # "none"
      THEN [self |-> [s EXCEPT !.values = st.values],
            exc |-> ExtractExc(st.exc)]
      ELSE Extracted([s EXCEPT !.values = st.values],
                     SetMeta(s.meta, s.sensor_id, sensor_data))
ExtractFrom(s, sensor_data) ==
    IF ~Has(sensor_data, "sensordatavalues")
      THEN [self |-> s, exc |-> ExtractExc("KeyError")]
      ELSE ExtractMeta(s, sensor_data,
                       StoreEntries(s.values, sensor_data.sensordatavalues, 1))
ExtractSorted(s, e) ==
    IF e # "none" THEN [self |-> s, exc |-> ExtractExc(e)]
    ELSE ExtractFrom(s, sorted(s.data.v)[1])
Extract(s) == ExtractSorted(s, SortExc(s.data.v))

\* get_data once the first try block is over, s1 the object after it
AfterFetch(s1, resp) ==
    IF resp.raises # "none"
      THEN [self |-> s1,
            exc |-> IF GetCaught(resp.raises) THEN "LuftdatenConnectionError"
                    ELSE resp.raises]
    ELSE IF ~Truthy(s1.data)
      THEN [self |-> [s1 EXCEPT !.values = NullAll(s1.values)],
            exc |-> "none"]
    ELSE Extract(s1)

Issued(done, reqs) ==
    [self |-> done.self, exc |-> done.exc, requests |-> reqs]

\* Luftdaten.get_data with the session answering resp: the object after
\* the call, the exception that escapes it, the requests it issued
get_data(s, resp) ==
    Issued(AfterFetch([s EXCEPT !.data = AssignData(s.data, resp)], resp),
           <<GetRequest(s)>>)

\* faulty variant: self.data is not None
validate_sensor_is_not_none(s) == s.data.t # "NoneType"

\* Luftdaten.validate_sensor: True if self.data else False
validate_sensor(s) == Truthy(s.data)

----------------------------------------------------------------------------
(* class LuftdatenPush *)

\* LuftdatenPush.__init__(sensor_type, chip_id, sw_version, loop, session)
LuftdatenPush(sensor_type, chip_id, sw_version) ==
    [cls |-> "LuftdatenPush",
     chip_id |-> chip_id,
     sw_version |-> sw_version,
     data |-> DataNone,
     values |-> EmptyDict,
     meta |-> EmptyDict,
     url |-> _PUSH_ENDPOINT,
     headers |-> [h \in {"content-type", "X-Pin", "X-Sensor"} |->
                    CASE h = "content-type" -> "application/json"
                      [] h = "X-Pin" -> Format(sensor_type)
                      [] h = "X-Sensor" -> chip_id]]

\* faulty variant: the last key of the mapping left out
SensorDataValuesButLast(data) ==
    [i \in 1..(Len(data) - 1) |->
        [value_type |-> data[i][1], value |-> data[i][2]]]

\* for key in data: sensordatavalues.append({"value_type": key,
\*                                           "value": data[key]})
SensorDataValues(data) ==
    [i \in 1..Len(data) |-> [value_type |-> data[i][1], value |-> data[i][2]]]

\* payload = {"software_version": ..., "sensordatavalues": ...}
Payload(s, data) ==
    [software_version |-> s.sw_version,
     sensordatavalues |-> SensorDataValues(data)]

\* self._session.request('POST', self.url, json=payload,
\*                       headers=self.headers), under async_timeout.timeout(60)
PushRequest(s, data) ==
    [method |-> "POST", url |-> s.url, json |-> Payload(s, data),
     headers |-> s.headers, timeout |-> Timeout]

\* what the session raises inside push_data: the request itself, or the
\* read of the body, which happens only for text/html (response.text()) and
\* application/json (response.json()).  A body that does not decode raises
\* UnicodeDecodeError resp. json.JSONDecodeError (both ValueError, neither a
\* ClientError); a connection lost during the read raises a ClientError.
PushRaised(resp) ==
    IF resp.raises # "none" THEN resp.raises
    ELSE IF resp.content_type = "text/html"
      THEN CASE resp.body = "malformed" -> "UnicodeDecodeError"
             [] resp.body = "broken" -> "ClientError"
             [] OTHER -> "none"
    ELSE IF resp.content_type = "application/json"
      THEN CASE resp.body = "malformed" -> "JSONDecodeError"
             [] resp.body = "broken" -> "ClientError"
             [] OTHER -> "none"
    ELSE "none"

PushRaisedAt(resp) ==
    IF resp.raises # "none" THEN "request"
    ELSE IF PushRaised(resp) # "none" THEN "read"
    ELSE "none"

\* except (asyncio.TimeoutError, aiohttp.ClientError) of push_data
PushCaught(e) == e \in {"TimeoutError", "ClientError"}

\* LuftdatenPush.push_data(data) with the session answering resp
push_data(s, data, resp) ==
    LET e == PushRaised(resp)
    IN [self |-> s,
        exc |-> IF e = "none" THEN "none"
                ELSE IF PushCaught(e) THEN "LuftdatenConnectionError"
                ELSE e,
        requests |-> <<PushRequest(s, data)>>]

----------------------------------------------------------------------------
(* The environment: what the API answers and what callers pass *)

SeqsUpTo(S, n) == UNION {[1..k -> S] : k \in 0..n}

LocA == [longitude |-> PyStr(<<"9", ".", "1">>),
         latitude |-> PyStr(<<"4", "8", ".", "7">>)]
LocB == [longitude |-> PyInt(7),
         latitude |-> PyStr(<<"-", "3", ".", "5">>)]

Entry(vt, x) == [value_type |-> vt, value |-> x]

\* Well-formed records.  As str, "10" < "19" < "2".
RecA == [timestamp |-> PyStr(<<"1", "0">>), location |-> LocA,
         sensordatavalues |-> <<Entry("P1", PyStr(<<"1", "2", ".", "3">>)),
                                Entry("P2", PyStr(<<"7">>))>>]
RecB == [timestamp |-> PyStr(<<"2">>), location |-> LocB,
         sensordatavalues |-> <<Entry("P1", PyInt(5))>>]
RecC == [timestamp |-> PyStr(<<"2">>), location |-> LocA,
         sensordatavalues |-> <<Entry("P2", PyFloat(55))>>]

\* Records that are invalid for extraction
NoValues == [timestamp |-> PyStr(<<"1", "9">>), location |-> LocA]
NoLocation == [timestamp |-> PyStr(<<"2">>),
               sensordatavalues |-> <<Entry("P1", PyStr(<<"7", ".", "0">>))>>]
NoTimestamp == [location |-> LocB,
                sensordatavalues |-> <<Entry("P1", PyInt(5))>>]
NotNumeric == [timestamp |-> PyStr(<<"1", "0">>), location |-> LocA,
               sensordatavalues |-> <<Entry("P2", PyStr(<<"7">>)),
                                      Entry("P1", PyStr(<<"a", "b", "c">>))>>]
NullValue == [timestamp |-> PyStr(<<"1", "9">>), location |-> LocB,
              sensordatavalues |-> <<Entry("P1", None)>>]

WellFormed == {RecA, RecB, RecC}
Malformed == {NoValues, NoLocation, NoTimestamp, NotNumeric, NullValue}

\* decoded bodies: null; every list of at most MaxRecords well-formed
\* records; each malformed record alone, after a well-formed record and
\* before one
Bodies ==
    {DataNone}
    \cup {List(recs) : recs \in SeqsUpTo(WellFormed, MaxRecords)}
    \cup {List(<<m>>) : m \in Malformed}
    \cup {List(<<RecB, m>>) : m \in Malformed}
    \cup {List(<<m, RecA>>) : m \in Malformed}

\* what the session answers to the GET: the request raises, or
\* response.json() raises, or it returns the decoded body
GetResponses ==
    {[raises |-> e, at |-> "request", body |-> DataNone] :
        e \in {"TimeoutError", "ClientError"}}
    \cup {[raises |-> e, at |-> "read", body |-> DataNone] :
        e \in {"ClientError", "JSONDecodeError"}}
    \cup {[raises |-> "none", at |-> "none", body |-> b] : b \in Bodies}

SensorIds == {PyInt(155)}

SensorTypes == {SENSOR_SDS011, SENSOR_BME280}
ChipIds == {"esp8266-1"}
SwVersions == {"python-luftdaten 0.1"}

PushKeys == {"P1", "P2", "temperature"}
PushValues == {PyFloat(105), PyFloat(50)}

\* a dict has each key once
PushInputs ==
    {d \in SeqsUpTo(PushKeys \X PushValues, MaxKeys) :
        \A i, j \in 1..Len(d) : d[i][1] = d[j][1] => i = j}

\* what the session answers to the POST: the request raises, or a response
\* arrives with a status, a content type and a body that reads and decodes
\* ("ok"), reads but does not decode ("malformed") or fails to read
\* ("broken"); a text/plain body is never read
PushResponses ==
    {[raises |-> e, status |-> 0, content_type |-> "", body |-> ""] :
        e \in {"TimeoutError", "ClientError"}}
    \cup [raises : {"none"}, status : {200, 500},
          content_type : {"text/html", "application/json"},
          body : {"ok", "malformed", "broken"}]
    \cup [raises : {"none"}, status : {200, 500},
          content_type : {"text/plain"}, body : {"ok"}]

----------------------------------------------------------------------------
(* The state machine *)

NoCall == [op |-> "none", arg |-> <<>>, exc |-> "none", ret |-> "None",
           raised |-> "none", at |-> "none", requests |-> <<>>]

InitLuftdaten ==
    \E sid \in SensorIds :
        /\ self = Luftdaten(sid)
        /\ ctor = [cls |-> "Luftdaten", sensor_id |-> sid]

InitLuftdatenPush ==
    \E st \in SensorTypes, chip \in ChipIds, sw \in SwVersions :
        /\ self = LuftdatenPush(st, chip, sw)
        /\ ctor = [cls |-> "LuftdatenPush", sensor_type |-> st,
                   chip_id |-> chip, sw_version |-> sw]

Init ==
    /\ InitLuftdaten \/ InitLuftdatenPush
    /\ call = NoCall
    /\ lastFetch = "never"
    /\ decoded = "never"

\* what a get_data call received
Received(resp) ==
    IF resp.raises # "none" THEN "nothing"
    ELSE IF Truthy(resp.body) THEN "nonempty" ELSE "empty"

\* await luftdaten.get_data()
GetData ==
    /\ self.cls = "Luftdaten"
    /\ \E resp \in GetResponses :
          LET r == get_data(self, resp)
          IN /\ self' = r.self
             /\ call' = [op |-> "get_data", arg |-> <<>>, exc |-> r.exc,
                         ret |-> "None", raised |-> resp.raises,
                         at |-> resp.at, requests |-> r.requests]
             /\ lastFetch' = Received(resp)
             /\ decoded' = IF resp.raises = "none" THEN Received(resp)
                           ELSE decoded
    /\ UNCHANGED ctor

\* await luftdaten.validate_sensor()
ValidateSensor ==
    /\ self.cls = "Luftdaten"
    /\ call' = [op |-> "validate_sensor", arg |-> <<>>, exc |-> "none",
                ret |-> IF validate_sensor(self) THEN "True" ELSE "False",
                raised |-> "none", at |-> "none", requests |-> <<>>]
    /\ UNCHANGED <<self, ctor, lastFetch, decoded>>

\* await pusher.push_data(data)
PushData ==
    /\ self.cls = "LuftdatenPush"
    /\ \E data \in PushInputs, resp \in PushResponses :
          LET r == push_data(self, data, resp)
          IN /\ self' = r.self
             /\ call' = [op |-> "push_data", arg |-> data, exc |-> r.exc,
                         ret |-> "None", raised |-> PushRaised(resp),
                         at |-> PushRaisedAt(resp), requests |-> r.requests]
    /\ UNCHANGED <<ctor, lastFetch, decoded>>

Next == GetData \/ ValidateSensor \/ PushData

Spec == Init /\ [][Next]_vars

----------------------------------------------------------------------------
(* Vocabulary of the properties *)

\* the last call was get_data and it decoded a response body
Fetched == call.op = "get_data" /\ call.raised = "none"

\* timestamp of record i is maximal, as str, among the records
IsLatest(recs, i) ==
    \A j \in 1..Len(recs) :
        ~StrLess(recs[i].timestamp.s, recs[j].timestamp.s)

Numeric(x) == Float(x).exc = "none"

\* a record as the API documents it: a str timestamp, a location with
\* numeric coordinates, and value entries of distinct value_type with
\* numeric values
ValidRecord(r) ==
    /\ Has(r, "timestamp") /\ Has(r, "location") /\ Has(r, "sensordatavalues")
    /\ r.timestamp.t = "str"
    /\ Has(r.location, "longitude") /\ Has(r.location, "latitude")
    /\ Numeric(r.location.longitude) /\ Numeric(r.location.latitude)
    /\ \A i \in 1..Len(r.sensordatavalues) :
          LET e == r.sensordatavalues[i]
          IN /\ Has(e, "value_type") /\ Has(e, "value") /\ Numeric(e.value)
             /\ \A j \in 1..Len(r.sensordatavalues) :
                   r.sensordatavalues[j].value_type = e.value_type => i = j

ValidResponse(recs) == \A i \in 1..Len(recs) : ValidRecord(recs[i])

\* the object exposes the reading of record r
Exposes(r) ==
    /\ \A i \in 1..Len(r.sensordatavalues) :
          LET e == r.sensordatavalues[i]
          IN /\ Has(self.values, e.value_type)
             /\ self.values[e.value_type] = Float(e.value).val
    /\ DOMAIN self.meta = {"sensor_id", "longitude", "latitude"}
    /\ self.meta["sensor_id"] = ctor.sensor_id
    /\ self.meta["longitude"] = Float(r.location.longitude).val
    /\ self.meta["latitude"] = Float(r.location.latitude).val

\* the value types of the record a response selects: the first of the
\* records with the maximal timestamp; none when the records cannot be
\* ordered or the record lists no values
SelectedTypes(recs) ==
    IF \E i \in 1..Len(recs) :
           ~Has(recs[i], "timestamp") \/ recs[i].timestamp.t # "str"
      THEN {}
      ELSE LET first == CHOOSE i \in 1..Len(recs) :
                           /\ IsLatest(recs, i)
                           /\ \A j \in 1..(i - 1) : ~IsLatest(recs, j)
               r == recs[first]
           IN IF ~Has(r, "sensordatavalues") THEN {}
              ELSE {r.sensordatavalues[k].value_type :
                      k \in {n \in 1..Len(r.sensordatavalues) :
                               Has(r.sensordatavalues[n], "value_type")}}

\* no record of the response can be selected and extracted: a record has
\* no timestamp, or every record with the maximal timestamp is invalid
SelectionInvalid(recs) ==
    \/ \E i \in 1..Len(recs) : ~Has(recs[i], "timestamp")
    \/ \A i \in 1..Len(recs) : IsLatest(recs, i) => ~ValidRecord(recs[i])

TransportFailures == {"TimeoutError", "ClientError"}

----------------------------------------------------------------------------
(* Properties *)

\* C1: after get_data decoded a non-empty response of valid records, the
\* call raised nothing and the object exposes the reading of a record whose
\* timestamp is lexicographically maximal: values[value_type] is the float
\* of each of its entries and meta is {sensor_id, longitude, latitude} of
\* that record.
C1_LatestRecordExposed ==
    (Fetched /\ Truthy(self.data) /\ ValidResponse(self.data.v)) =>
        /\ call.exc = "none"
        /\ \E i \in 1..Len(self.data.v) :
              IsLatest(self.data.v, i) /\ Exposes(self.data.v[i])

\* a response of several valid records whose first record is not the latest
C1_Witness ==
    /\ Fetched /\ Truthy(self.data) /\ ValidResponse(self.data.v)
    /\ Len(self.data.v) >= 2
    /\ ~IsLatest(self.data.v, 1)
    /\ call.exc = "none"

\* C2: when get_data decoded a non-empty response whose selected record is
\* invalid for extraction (no sensordatavalues, no location, no timestamp,
\* a value that is not numeric), the call raises LuftdatenError and no other
\* exception.
C2_InvalidRecordRaisesLuftdatenError ==
    (Fetched /\ Truthy(self.data) /\ SelectionInvalid(self.data.v)) =>
        call.exc = "LuftdatenError"

\* C3: when the session raises a timeout or a client error inside get_data
\* or push_data, the call raises LuftdatenConnectionError and has issued one
\* request only.
C3_TransportFailureRaisesConnectionError ==
    (call.op \in {"get_data", "push_data"} /\ call.raised \in TransportFailures)
        => /\ call.exc = "LuftdatenConnectionError"
           /\ Len(call.requests) = 1

\* a get_data call whose request timed out
C3_Witness ==
    /\ call.op = "get_data" /\ call.raised = "TimeoutError"
    /\ call.at = "request"
    /\ call.exc = "LuftdatenConnectionError"

\* C4 as stated: validate_sensor returns true iff the last get_data call
\* produced a non-empty response.
C4_ValidateIffLastFetchNonEmpty ==
    call.op = "validate_sensor" =>
        (call.ret = "True" <=> lastFetch = "nonempty")

\* C4 amended: validate_sensor returns true iff the most recent response
\* body that a get_data call decoded was non-empty (false when no call has
\* decoded one); a call that fails before it decodes a body does not change
\* the answer.
C4_ValidateIffLastDecodedNonEmpty ==
    call.op = "validate_sensor" =>
        (call.ret = "True" <=> decoded = "nonempty")

\* validate_sensor answers true although the last get_data received nothing
C4_Witness ==
    /\ call.op = "validate_sensor" /\ call.ret = "True"
    /\ lastFetch = "nothing"

\* C5: a get_data call that receives an empty or null body returns without
\* raising, sets every key of values to None, leaves the key set of values
\* as it was and does not modify meta.
C5_EmptyResponseNullsValues ==
    [][(call'.op = "get_data" /\ lastFetch' = "empty") =>
          /\ call'.exc = "none"
          /\ DOMAIN self'.values = DOMAIN self.values
          /\ \A k \in DOMAIN self.values : self'.values[k] = None
          /\ self'.meta = self.meta]_vars

\* an empty response after a reading with two measurements was stored
C5_Witness ==
    /\ call.op = "get_data" /\ lastFetch = "empty" /\ call.exc = "none"
    /\ DOMAIN self.values = {"P1", "P2"}
    /\ \A k \in DOMAIN self.values : self.values[k] = None
    /\ Has(self.meta, "latitude")

\* C6: when get_data receives a non-empty response, every key that was in
\* values before the call and is not a value_type of the selected record
\* keeps the value it had.
C6_AbsentTypesKeepValue ==
    [][(call'.op = "get_data" /\ lastFetch' = "nonempty") =>
          \A k \in DOMAIN self.values :
              k \notin SelectedTypes(self'.data.v) =>
                  /\ Has(self'.values, k)
                  /\ self'.values[k] = self.values[k]]_vars

\* a stored measurement that the selected record of the last response does
\* not list, next to one that it lists
C6_Witness ==
    /\ call.op = "get_data" /\ lastFetch = "nonempty" /\ call.exc = "none"
    /\ SelectedTypes(self.data.v) # {}
    /\ \E k \in DOMAIN self.values :
          k \notin SelectedTypes(self.data.v) /\ self.values[k] # None

\* C7: push_data raises only on a transport failure: when the session raises
\* neither a timeout nor a client error, the call completes without raising,
\* whatever the status, the content type and the body of the response.
C7_PushRaisesOnlyOnTransportFailure ==
    (call.op = "push_data" /\ call.raised \notin TransportFailures) =>
        call.exc = "none"

\* C8: push_data issues one POST whose body carries the constructed
\* software version and one entry per key of the input mapping, in the
\* mapping's order and with its values, under the headers X-Pin (the
\* decimal text of the constructed sensor type) and X-Sensor (the chip id).
C8_PushRequestMatchesInput ==
    call.op = "push_data" =>
        /\ Len(call.requests) = 1
        /\ LET req == call.requests[1]
               sent == req.json.sensordatavalues
           IN /\ req.method = "POST"
              /\ req.json.software_version = ctor.sw_version
              /\ Len(sent) = Len(call.arg)
              /\ \A i \in 1..Len(call.arg) :
                    /\ sent[i].value_type = call.arg[i][1]
                    /\ sent[i].value = call.arg[i][2]
                    /\ Cardinality({j \in 1..Len(sent) :
                          sent[j].value_type = call.arg[i][1]}) = 1
              /\ AllDigits(req.headers["X-Pin"])
              /\ DigitsVal(req.headers["X-Pin"]) = ctor.sensor_type
              /\ req.headers["X-Sensor"] = ctor.chip_id

\* a mapping of two keys pushed by a sensor whose type has two digits
C8_Witness ==
    /\ call.op = "push_data" /\ call.exc = "none"
    /\ Len(call.arg) = 2
    /\ call.arg[1][1] = "P2" /\ call.arg[2][1] = "P1"
    /\ call.arg[1][2] # call.arg[2][2]
    /\ ctor.sensor_type = SENSOR_BME280

\* C9: no call shrinks the key set of values.
C9_KeysNeverShrink ==
    [][DOMAIN self.values \subseteq DOMAIN self'.values]_vars

\* a get_data call that raised LuftdatenError with both keys still there
C9_Witness ==
    /\ call.op = "get_data" /\ call.exc = "LuftdatenError"
    /\ DOMAIN self.values = {"P1", "P2"}

\* C10: a get_data call that ends in LuftdatenConnectionError leaves
\* values, meta and data as they were.
C10_ConnectionErrorChangesNothing ==
    [][(call'.op = "get_data" /\ call'.exc = "LuftdatenConnectionError") =>
          /\ self'.values = self.values
          /\ self'.meta = self.meta
          /\ self'.data = self.data]_vars

\* a get_data call that failed at the read of the body, after a reading
\* was stored
C10_Witness ==
    /\ call.op = "get_data" /\ call.exc = "LuftdatenConnectionError"
    /\ call.at = "read"
    /\ Truthy(self.data)
    /\ Has(self.meta, "latitude")
    /\ \E k \in DOMAIN self.values : self.values[k] # None

====
